---- MODULE Spec2Model ----
(***************************************************************************)
(* A model of quarantine.py: the Diagnostician rule engine (triage,        *)
(* diagnose, admit), the Ward quarantine stores and their WardFactory      *)
(* registry, and the admit / discharge runs of the script's main block.    *)
(*                                                                         *)
(* Python values are modelled as follows.  A str-valued optional is a      *)
(* string, with None the absence.  A dict is a record whose DOMAIN is its  *)
(* key set, so a missing key is a key outside the DOMAIN.  A falsy int     *)
(* (None or 0) is 0.  A list is a sequence.  A raised exception is the     *)
(* exc field of an operator's result.                                      *)
(***************************************************************************)
EXTENDS Integers, Sequences, FiniteSets, TLC

VARIABLES
    discharge,       \* args.discharge: the run sweeps the wards (TRUE) or admits (FALSE)
    config,          \* config['quarantineRules'], the rule dicts of the YAML file
    stdinDto,        \* the action script DTO read from stdin
    vmt,             \* VmtJit.vmt: None, or the session once it was built
    _ward_cache,     \* WardFactory._ward_cache: <<key, ward>> pairs in insertion order
    wards,           \* every Ward instance constructed so far, by construction order
    diagnosticians,  \* the Diagnostician objects, in rule order
    patient,         \* the Patient built from stdinDto
    groups,          \* the platform's static groups: name -> existence and members
    response,        \* what vmt.request('actions', ...) answers
    requests,        \* how many action-history requests were issued
    pc,              \* position of the run in the main block
    i,               \* index of the rule (admit run) or ward (sweep) being processed
    k,               \* index of the ward inside Diagnostician.admit
    triaged,         \* per rule: what triage returned
    diagnosed,       \* per rule: what diagnose returned
    log,             \* the calls made so far, in order
    exception,       \* the exception that reached line 612, None while there is none
    swept,           \* what each discharge_eligible_patients call found and returned
    asked            \* what each get_ward call was given and returned

vars == <<discharge, config, stdinDto, vmt, _ward_cache, wards, diagnosticians,
          patient, groups, response, requests, pc, i, k, triaged, diagnosed,
          log, exception, swept, asked>>

----------------------------------------------------------------------------
(* Bounds of the model *)

\* longest action history the platform answers with
MaxHistory == 3
\* largest failureCount of a rule
MaxFailureCount == 2
\* largest attemptCount of a rule
MaxAttemptCount == 2

----------------------------------------------------------------------------
(* Python values *)

None == "None"
NoneObj == [class |-> "NoneType"]

\* dict.get(key, default)
GetOr(dto, key, default) == IF key \in DOMAIN dto THEN dto[key] ELSE default

\* dict.get(key): the value, None when the key is missing
Get(dto, key) == GetOr(dto, key, None)

\* the empty dict
EmptyDict == <<>>

\* truth value of an optional str
Truthy(s) == s # None /\ s # ""

\* str.lower() on the outcome vocabulary
lower(s) ==
    CASE s = "FAILED" -> "failed"
      [] s = "Failed" -> "failed"
      [] s = "FAILING" -> "failing"
      [] s = "SUCCEEDED" -> "succeeded"
      [] OTHER -> s

\* the createTime strings a history record may carry: two ISO-8601 dates, the
\* later instant written with the smaller string, and one that is no date
IsoDates == {"2020-01-01T02:00:00+01:00", "2020-01-01T02:00:00+00:00"}
TimeStrings == IsoDates \cup {"yesterday"}

\* iso8601.parse_date: the instant (hours since 2020-01-01T00:00Z), or a ParseError
read_isodate(date) ==
    CASE date = "2020-01-01T02:00:00+01:00" -> [exc |-> None, value |-> 1]
      [] date = "2020-01-01T02:00:00+00:00" -> [exc |-> None, value |-> 2]
      [] date = "2020-01-01T03:00:00+00:00" -> [exc |-> None, value |-> 3]
      [] OTHER -> [exc |-> "ParseError", value |-> 0]

----------------------------------------------------------------------------
(* Event and Patient *)

\* Event.__init__ on an action DTO
Event(actionDto) ==
    [actionType |-> actionDto.actionType,
     entityType |-> Get(GetOr(actionDto, "targetSE", EmptyDict), "entityType"),
     uuid       |-> actionDto.uuid,
     result     |-> Get(actionDto, "actionState"),
     createTime |-> Get(actionDto, "createTime")]

\* Patient.__init__: the keys it subscripts must exist, or KeyError is raised
PatientRaises(actionScriptDto) ==
    \/ "actionItem" \notin DOMAIN actionScriptDto
    \/ "actionState" \notin DOMAIN actionScriptDto
    \/ "targetSE" \notin DOMAIN actionScriptDto.actionItem[1]
    \/ "turbonomicInternalId" \notin DOMAIN actionScriptDto.actionItem[1].targetSE

Patient(actionScriptDto) ==
    [triggerEvent |-> Event(actionScriptDto.actionItem[1]),
     actionState  |-> actionScriptDto.actionState,
     uuid         |-> actionScriptDto.actionItem[1].targetSE.turbonomicInternalId,
     tags         |-> <<>>,
     vendorIds    |-> <<>>]

\* Patient.get_events: the first element of the response, each record an Event
get_events(resp) ==
    IF resp.raises THEN [exc |-> "ConnectionError", events |-> <<>>]
    ELSE IF Len(resp.body) = 0 THEN [exc |-> "IndexError", events |-> <<>>]
    ELSE [exc |-> None,
          events |-> [n \in 1..Len(resp.body[1]) |-> Event(resp.body[1][n])]]

----------------------------------------------------------------------------
(* Diagnostician *)

\* Diagnostician.__init__, given the wards get_ward returned for the rule's
\* quarantineMethods.  attemptCount is only ever tested for truth and used as
\* a slice length, so None and 0 are both the falsy 0.
Diagnostician(quarantineRuleConfig, wardRefs) ==
    [actionType    |-> quarantineRuleConfig.actionType,
     entityType    |-> Get(quarantineRuleConfig, "entityType"),
     lookbackHours |-> GetOr(quarantineRuleConfig, "lookbackHours", 720),
     failureCount  |-> GetOr(quarantineRuleConfig, "failureCount", 1),
     attemptCount  |-> GetOr(quarantineRuleConfig, "attemptCount", 0),
     wards         |-> wardRefs]

\* triage that forgets the entity type
triage_anyEntity(d, p) == d.actionType = p.triggerEvent.actionType

\* Diagnostician.triage
triage(d, p) ==
    IF d.actionType = p.triggerEvent.actionType /\ ~Truthy(d.entityType)
    THEN TRUE
    ELSE IF d.actionType = p.triggerEvent.actionType
            /\ d.entityType = p.triggerEvent.entityType
    THEN TRUE
    ELSE FALSE

\* key of the sort in diagnose
SortKey(action) == read_isodate(action.createTime).value

\* where sorted() puts an element that came after all of s: behind every
\* element whose key is not greater (the sort is stable)
RECURSIVE InsertSorted(_, _)
InsertSorted(s, e) ==
    IF s = <<>> THEN <<e>>
    ELSE IF SortKey(s[Len(s)]) <= SortKey(e) THEN Append(s, e)
    ELSE Append(InsertSorted(SubSeq(s, 1, Len(s) - 1), e), s[Len(s)])

\* a sort that leaves the events as the platform returned them
sorted_asReturned(events) == events

\* sorted(events, key=lambda action: read_isodate(action.createTime))
RECURSIVE sorted(_)
sorted(events) ==
    IF events = <<>> THEN <<>>
    ELSE InsertSorted(sorted(SubSeq(events, 1, Len(events) - 1)),
                      events[Len(events)])

\* the slice taken from the wrong end: sortedEvents[:self.attemptCount]
LastN_fromFront(s, n) == IF Len(s) <= n THEN s ELSE SubSeq(s, 1, n)

\* sortedEvents[self.attemptCount*-1:]
LastN(s, n) == IF Len(s) <= n THEN s ELSE SubSeq(s, Len(s) - n + 1, Len(s))

\* a.result and a.result.lower() == 'failed'
IsFailed(a) == Truthy(a.result) /\ lower(a.result) = "failed"

\* len([a for a in s if ...])
RECURSIVE CountFailed(_)
CountFailed(s) ==
    IF s = <<>> THEN 0
    ELSE (IF IsFailed(s[1]) THEN 1 ELSE 0) + CountFailed(Tail(s))

\* the slice and the count of diagnose, on events already sorted
failedActions(d, sortedEvents) ==
    CountFailed(IF d.attemptCount # 0
                THEN LastN(sortedEvents, d.attemptCount)
                ELSE sortedEvents)

\* the comparison made strict
Threshold_strict(count, failureCount) == count > failureCount

\* the comparison that renders the diagnosis
Threshold(count, failureCount) == count >= failureCount

\* the fast path taken for FAILED only
FastPath_failedOnly(d, p) == d.failureCount = 1 /\ p.actionState = "FAILED"

\* the fast path of diagnose
FastPath(d, p) == d.failureCount = 1 /\ p.actionState \in {"FAILING", "FAILED"}

\* an except clause that catches nothing
Handled_nothing(exc) == FALSE

\* what the except clause of diagnose does with an exception of the try block
Handled(exc) == exc = "IndexError"

\* Diagnostician.diagnose: the exception that leaves it (None if it returns),
\* the value it returns, and the action-history requests it issued
diagnose(d, p, resp) ==
    IF FastPath(d, p)
    THEN [exc |-> None, diagnosed |-> TRUE, requests |-> 0]
    ELSE LET got == get_events(resp)
             bad == \E n \in 1..Len(got.events) :
                        read_isodate(got.events[n].createTime).exc # None
             exc == IF got.exc # None THEN got.exc
                    ELSE IF bad THEN "ParseError" ELSE None
         IN  IF exc # None
             THEN IF Handled(exc)
                  THEN [exc |-> None, diagnosed |-> FALSE, requests |-> 1]
                  ELSE [exc |-> exc, diagnosed |-> FALSE, requests |-> 1]
             ELSE [exc |-> None,
                   diagnosed |-> Threshold(failedActions(d, sorted(got.events)),
                                           d.failureCount),
                   requests |-> 1]

----------------------------------------------------------------------------
(* Ward and WardFactory *)

\* VmtWard.__init__
VmtWard(wardConfig) ==
    [class      |-> "VmtWard",
     group_name |-> wardConfig.groupName,
     group_type |-> wardConfig.groupType,
     group      |-> NoneObj]

\* Ward(): the base class, whose operations all pass
Ward == [class |-> "Ward"]

\* a key that forgets the group name
_unique_ward_key_typeOnly(wardConfig) == wardConfig.type

\* WardFactory._unique_ward_key
_unique_ward_key(wardConfig) ==
    IF wardConfig.type = "vmt"
    THEN wardConfig.type \o "-" \o wardConfig.groupName
    ELSE wardConfig.type

\* key in self._ward_cache
InCache(cache, key) == \E n \in 1..Len(cache) : cache[n][1] = key

\* self._ward_cache[key]
CacheGet(cache, key) == cache[CHOOSE n \in 1..Len(cache) : cache[n][1] = key][2]

\* a factory that never looks into its cache
get_ward_uncached(cache, heap, wardConfig) ==
    [cache |-> Append(cache, <<_unique_ward_key(wardConfig), Len(heap) + 1>>),
     heap  |-> Append(heap, IF wardConfig.type = "vmt" THEN VmtWard(wardConfig)
                            ELSE Ward),
     ward  |-> Len(heap) + 1,
     constructed |-> TRUE]

\* WardFactory.get_ward: the cache and the instances after the call, the
\* instance returned (its place in wards), and whether one was constructed
get_ward(cache, heap, wardConfig) ==
    IF ~InCache(cache, _unique_ward_key(wardConfig))
    THEN [cache |-> Append(cache, <<_unique_ward_key(wardConfig), Len(heap) + 1>>),
          heap  |-> Append(heap, IF wardConfig.type = "vmt" THEN VmtWard(wardConfig)
                                 ELSE Ward),
          ward  |-> Len(heap) + 1,
          constructed |-> TRUE]
    ELSE [cache |-> cache,
          heap  |-> heap,
          ward  |-> CacheGet(cache, _unique_ward_key(wardConfig)),
          constructed |-> FALSE]

\* WardFactory.all_wards: the cached instances, in insertion order
all_wards(cache) == [n \in 1..Len(cache) |-> cache[n][2]]

----------------------------------------------------------------------------
(* Inputs *)

ActionTypes == {"MOVE", "RESIZE"}
EntityTypes == {"VirtualMachine", "PhysicalMachine"}
ActionStates == {"SUCCEEDED", "FAILING", "FAILED"}

\* the action script DTO of an action on entity e1
ActionScriptDto(actionType, entityType, actionState) ==
    [actionItem |->
        <<[actionType |-> actionType,
           uuid       |-> "action-0",
           targetSE   |-> IF entityType = None
                          THEN [turbonomicInternalId |-> "e1"]
                          ELSE [turbonomicInternalId |-> "e1",
                                entityType |-> entityType]]>>,
     actionState |-> actionState]

\* the action DTOs of a history: FAILED and SUCCEEDED as the platform spells
\* them, FAILED in lower case, and a record without actionState
HistoryDtos ==
    {[actionType |-> "MOVE", uuid |-> "action-n", actionState |-> st,
      createTime |-> t] : st \in {"FAILED", "failed", "SUCCEEDED"}, t \in TimeStrings}
    \cup {[actionType |-> "MOVE", uuid |-> "action-n", createTime |-> t] :
              t \in TimeStrings}

\* sequences over S of length at most n
SeqsUpTo(S, n) == UNION {[1..m -> S] : m \in 0..n}

\* the answers of vmt.request('actions', ...): a failed request, an empty
\* response, or a response whose first element is the list of actions
Responses ==
    {[raises |-> TRUE, body |-> <<>>], [raises |-> FALSE, body |-> <<>>]}
    \cup {[raises |-> FALSE, body |-> <<h>>] : h \in SeqsUpTo(HistoryDtos, MaxHistory)}

NoResponse == [raises |-> FALSE, body |-> <<>>]

\* a rule dict of config.yaml
Rule(actionType, entityType, failureCount, attemptCount, quarantineMethods) ==
    LET base == [actionType |-> actionType, failureCount |-> failureCount,
                 attemptCount |-> attemptCount,
                 quarantineMethods |-> quarantineMethods]
    IN  IF entityType = None THEN base
        ELSE [key \in DOMAIN base \cup {"entityType"} |->
                 IF key = "entityType" THEN entityType ELSE base[key]]

----------------------------------------------------------------------------
(* One Diagnostician called on its own, as test_quarantine.py calls it *)

\* everything the main block owns, before it has done anything
Idle ==
    /\ discharge = FALSE
    /\ vmt = None
    /\ _ward_cache = <<>>
    /\ wards = <<>>
    /\ groups = <<>>
    /\ requests = 0
    /\ i = 1
    /\ k = 1
    /\ log = <<>>
    /\ exception = None
    /\ swept = <<>>
    /\ asked = <<>>

\* a rule over MOVE with no wards, a patient in any actionState, any response
InitDiagnose ==
    /\ Idle
    /\ \E fc \in 1..MaxFailureCount, ac \in 0..MaxAttemptCount :
          config = <<Rule("MOVE", None, fc, ac, <<>>)>>
    /\ diagnosticians = <<Diagnostician(config[1], <<>>)>>
    /\ \E st \in ActionStates : stdinDto = ActionScriptDto("MOVE", None, st)
    /\ patient = Patient(stdinDto)
    /\ response \in Responses
    /\ triaged = <<"pending">>
    /\ diagnosed = <<"pending">>
    /\ pc = "call"

\* how a call's outcome is recorded
Outcome(r) == IF r.exc # None THEN "raised"
              ELSE IF r.diagnosed THEN "positive" ELSE "negative"

\* d.diagnose(vmt, patient)
CallDiagnose ==
    /\ pc = "call"
    /\ LET r == diagnose(diagnosticians[1], patient, response)
       IN  /\ diagnosed' = [diagnosed EXCEPT ![1] = Outcome(r)]
           /\ requests' = requests + r.requests
           /\ exception' = r.exc
    /\ pc' = "returned"
    /\ UNCHANGED <<discharge, config, stdinDto, vmt, _ward_cache, wards,
                   diagnosticians, patient, groups, response, i, k, triaged, log,
                   swept, asked>>

SpecDiagnose == InitDiagnose /\ [][CallDiagnose]_vars

\* any rule and any patient over the action and entity types
InitTriage ==
    /\ Idle
    /\ \E ra \in ActionTypes, re \in EntityTypes \cup {None} :
          config = <<Rule(ra, re, 1, 0, <<>>)>>
    /\ diagnosticians = <<Diagnostician(config[1], <<>>)>>
    /\ \E pa \in ActionTypes, pe \in EntityTypes \cup {None}, st \in ActionStates :
          stdinDto = ActionScriptDto(pa, pe, st)
    /\ patient = Patient(stdinDto)
    /\ response = NoResponse
    /\ triaged = <<"pending">>
    /\ diagnosed = <<"pending">>
    /\ pc = "call"

\* d.triage(patient)
CallTriage ==
    /\ pc = "call"
    /\ triaged' = [triaged EXCEPT ![1] =
                      IF triage(diagnosticians[1], patient) THEN "match" ELSE "no match"]
    /\ pc' = "returned"
    /\ UNCHANGED <<discharge, config, stdinDto, vmt, _ward_cache, wards,
                   diagnosticians, patient, groups, response, requests, i, k,
                   diagnosed, log, exception, swept, asked>>

SpecTriage == InitTriage /\ [][CallTriage]_vars

----------------------------------------------------------------------------
(* Claims about one diagnose call, checked under SpecDiagnose *)

\* the rule, the trigger and the history as the claims speak of them
TheRule == config[1]
TheTrigger == stdinDto.actionItem[1]
History == IF Len(response.body) = 0 THEN <<>> ELSE response.body[1]
Outcomes == [n \in 1..Len(History) |-> Get(History[n], "actionState")]
Instants == [n \in 1..Len(History) |-> read_isodate(Get(History[n], "createTime"))]
AllParse == \A n \in 1..Len(History) : Instants[n].exc = None

\* 'failed' in any letter case
FailedSpellings == {"failed", "Failed", "FAILED"}

\* the call took the history path and the platform answered it
HistoryPath ==
    /\ pc = "returned"
    /\ ~(TheRule.failureCount = 1 /\ stdinDto.actionState \in {"FAILING", "FAILED"})
    /\ ~response.raises

\* the events of the history with a failed outcome
FailedEvents == {n \in 1..Len(History) : Outcomes[n] \in FailedSpellings}

MoreRecent(m, n) ==
    \/ Instants[m].value > Instants[n].value
    \/ Instants[m].value = Instants[n].value /\ m > n

\* the events among the w most recent
Window(w) ==
    {n \in 1..Len(History) :
        Cardinality({m \in 1..Len(History) : MoreRecent(m, n)}) < w}

\* C2: with attemptCount w, diagnose is positive iff at least failureCount of
\* the w most recent events (all of them when there are fewer) are failed; a
\* failed event older than those never counts
C2_OnlyTheWindowCounts ==
    (HistoryPath /\ TheRule.attemptCount > 0 /\ AllParse)
        => diagnosed[1] =
              IF Cardinality(FailedEvents \cap Window(TheRule.attemptCount))
                     >= TheRule.failureCount
              THEN "positive" ELSE "negative"

\* two failures in the history, the older one outside a window of 2, so that
\* the diagnosis is negative; the response is not in time order
C2_Witness ==
    /\ HistoryPath /\ AllParse
    /\ TheRule.attemptCount = 2 /\ TheRule.failureCount = 2
    /\ Len(History) = 3
    /\ Cardinality(FailedEvents) = 2
    /\ \E n \in FailedEvents : n \notin Window(2)
    /\ Instants[1].value > Instants[2].value
    /\ diagnosed[1] = "negative"

\* C3: with failureCount 1 and a patient FAILING or FAILED, diagnose is
\* positive and issues no action-history request, whatever the platform
\* would have answered
C3_FastPathFetchesNothing ==
    (pc = "returned" /\ TheRule.failureCount = 1
                    /\ stdinDto.actionState \in {"FAILING", "FAILED"})
        => diagnosed[1] = "positive" /\ requests = 0 /\ exception = None

\* the fast path taken by a FAILING patient while the platform would have failed
C3_Witness ==
    /\ pc = "returned" /\ TheRule.failureCount = 1
    /\ stdinDto.actionState = "FAILING"
    /\ response.raises
    /\ diagnosed[1] = "positive" /\ requests = 0

\* C7: on the history path, an empty response or a response with an empty
\* list of actions gives a negative diagnosis and no exception
C7_NoHistoryIsNegative ==
    (HistoryPath /\ (response.body = <<>> \/ response.body = << <<>> >>))
        => diagnosed[1] = "negative" /\ exception = None /\ requests = 1

\* an empty response to a rule that needs two failures
C7_Witness ==
    /\ HistoryPath /\ response.body = <<>>
    /\ TheRule.failureCount = 2
    /\ diagnosed[1] = "negative" /\ exception = None

----------------------------------------------------------------------------
(* Claim about one triage call, checked under SpecTriage *)

RuleKindAbsent == "entityType" \notin DOMAIN TheRule
TriggerKind == IF "entityType" \in DOMAIN TheTrigger.targetSE
               THEN TheTrigger.targetSE.entityType ELSE None

\* C4: triage returns true iff the rule's actionType is the trigger's and the
\* rule's entityType is absent or is the trigger's, and it does no I/O: no
\* session is built and no request is issued
C4_TriageIsTheLocalMatch ==
    pc = "returned" =>
        /\ triaged[1] = IF /\ TheRule.actionType = TheTrigger.actionType
                           /\ (RuleKindAbsent \/ TheRule.entityType = TriggerKind)
                        THEN "match" ELSE "no match"
        /\ requests = 0 /\ vmt = None /\ groups = <<>>

\* equal actionType, the rule's entityType present and not the trigger's
C4_Witness ==
    /\ pc = "returned"
    /\ TheRule.actionType = TheTrigger.actionType
    /\ ~RuleKindAbsent /\ TriggerKind # None /\ TheRule.entityType # TriggerKind
    /\ triaged[1] = "no match"

----------------------------------------------------------------------------
(* VmtJit and VmtWard against the platform *)

\* VmtJit.get_session: the session is built on first use and cached; fault
\* names the platform call that fails during the operation, "none" if none does
get_session(v, fault) ==
    IF v # None THEN [exc |-> None, vmt |-> v, calls |-> <<>>]
    ELSE IF fault = "Session"
    THEN [exc |-> "ConnectionError", vmt |-> v, calls |-> << <<"Session", "raised">> >>]
    ELSE [exc |-> None, vmt |-> "Session", calls |-> << <<"Session", "ok">> >>]

\* the group DTO the platform holds for a static group
GroupDto(name) == [uuid |-> "uuid-" \o name, displayName |-> name]

\* the entity DTO the platform holds for a group member
MemberDto(uuid) == [uuid |-> uuid, className |-> "VirtualMachine"]

\* vmt.search(types=['Group'], q=name)
search(g, name) == IF g[name].exists THEN <<GroupDto(name)>> ELSE <<>>

\* a set as a list, in the platform's order
RECURSIVE SetToSeq(_)
SetToSeq(S) ==
    IF S = {} THEN <<>>
    ELSE LET x == CHOOSE y \in S : TRUE IN <<x>> \o SetToSeq(S \ {x})

\* vmt.get_group_members(group_uuid)
get_group_members(g, name) ==
    LET ids == SetToSeq(g[name].members)
    IN  [n \in 1..Len(ids) |-> MemberDto(ids[n])]

\* a _get_group that never looks at the handle it cached
_get_group_uncached(w, g, fault) ==
    IF fault = "search"
    THEN [exc |-> "HTTPError", ward |-> w, groups |-> g,
          calls |-> << <<"search", "raised">> >>]
    ELSE IF search(g, w.group_name) = <<>>
    THEN IF fault = "add_static_group"
         THEN [exc |-> "HTTPError", ward |-> w, groups |-> g,
               calls |-> << <<"search", "none">>, <<"add_static_group", "raised">> >>]
         ELSE [exc |-> None,
               ward |-> [w EXCEPT !.group = GroupDto(w.group_name)],
               groups |-> [g EXCEPT ![w.group_name] =
                              [exists |-> TRUE, members |-> {}]],
               calls |-> << <<"search", "none">>, <<"add_static_group", "ok">> >>]
    ELSE [exc |-> None,
          ward |-> [w EXCEPT !.group = search(g, w.group_name)[1]],
          groups |-> g,
          calls |-> << <<"search", "found">> >>]

\* VmtWard._get_group: search once, create if nothing was found, cache the handle
_get_group(w, g, fault) ==
    IF w.group # NoneObj
    THEN [exc |-> None, ward |-> w, groups |-> g, calls |-> <<>>]
    ELSE IF fault = "search"
    THEN [exc |-> "HTTPError", ward |-> w, groups |-> g,
          calls |-> << <<"search", "raised">> >>]
    ELSE IF search(g, w.group_name) = <<>>
    THEN IF fault = "add_static_group"
         THEN [exc |-> "HTTPError", ward |-> w, groups |-> g,
               calls |-> << <<"search", "none">>, <<"add_static_group", "raised">> >>]
         ELSE [exc |-> None,
               ward |-> [w EXCEPT !.group = GroupDto(w.group_name)],
               groups |-> [g EXCEPT ![w.group_name] =
                              [exists |-> TRUE, members |-> {}]],
               calls |-> << <<"search", "none">>, <<"add_static_group", "ok">> >>]
    ELSE [exc |-> None,
          ward |-> [w EXCEPT !.group = search(g, w.group_name)[1]],
          groups |-> g,
          calls |-> << <<"search", "found">> >>]

\* VmtWard.admit
VmtWard_admit(w, v, g, p, fault) ==
    LET s == get_session(v, fault)
        r == _get_group(w, g, fault)
    IN  IF s.exc # None
        THEN [exc |-> s.exc, vmt |-> s.vmt, ward |-> w, groups |-> g,
              calls |-> s.calls]
        ELSE IF r.exc # None
        THEN [exc |-> r.exc, vmt |-> s.vmt, ward |-> r.ward, groups |-> r.groups,
              calls |-> s.calls \o r.calls]
        ELSE IF fault = "add_static_group_members"
        THEN [exc |-> "HTTPError", vmt |-> s.vmt, ward |-> r.ward,
              groups |-> r.groups,
              calls |-> s.calls \o r.calls
                        \o << <<"add_static_group_members", "raised">> >>]
        ELSE [exc |-> None, vmt |-> s.vmt, ward |-> r.ward,
              groups |-> [r.groups EXCEPT ![r.ward.group.displayName].members =
                             @ \cup {p.uuid}],
              calls |-> s.calls \o r.calls
                        \o << <<"add_static_group_members", "ok">> >>]

\* VmtWard.discharge: the members but the patient are written back
VmtWard_discharge(w, v, g, p, fault) ==
    LET s == get_session(v, fault)
        r == _get_group(w, g, fault)
        name == r.ward.group.displayName
    IN  IF s.exc # None
        THEN [exc |-> s.exc, vmt |-> s.vmt, ward |-> w, groups |-> g,
              calls |-> s.calls]
        ELSE IF r.exc # None
        THEN [exc |-> r.exc, vmt |-> s.vmt, ward |-> r.ward, groups |-> r.groups,
              calls |-> s.calls \o r.calls]
        ELSE IF fault = "get_group_members"
        THEN [exc |-> "HTTPError", vmt |-> s.vmt, ward |-> r.ward,
              groups |-> r.groups,
              calls |-> s.calls \o r.calls
                        \o << <<"get_group_members", "raised">> >>]
        ELSE IF fault = "update_static_group_members"
        THEN [exc |-> "HTTPError", vmt |-> s.vmt, ward |-> r.ward,
              groups |-> r.groups,
              calls |-> s.calls \o r.calls
                        \o << <<"get_group_members", "ok">>,
                              <<"update_static_group_members", "raised">> >>]
        ELSE [exc |-> None, vmt |-> s.vmt, ward |-> r.ward,
              groups |-> [r.groups EXCEPT ![name].members = @ \ {p.uuid}],
              calls |-> s.calls \o r.calls
                        \o << <<"get_group_members", "ok">>,
                              <<"update_static_group_members", "ok">> >>]

\* Ward.admit of the instance w: VmtWard.admit, or the base class's pass
ward_admit(w, v, g, p, fault) ==
    IF w.class = "VmtWard" THEN VmtWard_admit(w, v, g, p, fault)
    ELSE [exc |-> None, vmt |-> v, ward |-> w, groups |-> g, calls |-> <<>>]

\* [Patient(m) for m in members]
PatientsOf(members) ==
    IF \E n \in 1..Len(members) : PatientRaises(members[n])
    THEN [exc |-> "KeyError", patients |-> <<>>]
    ELSE [exc |-> None,
          patients |-> [n \in 1..Len(members) |-> Patient(members[n])]]

\* VmtWard.discharge_eligible_patients: former is what get_group_members
\* answered, patients the list returned
VmtWard_discharge_eligible_patients(w, v, g, fault) ==
    LET s == get_session(v, fault)
        r == _get_group(w, g, fault)
        name == r.ward.group.displayName
        members == get_group_members(r.groups, name)
        made == PatientsOf(members)
        none == [former |-> <<>>, patients |-> <<>>]
    IN  IF s.exc # None
        THEN [exc |-> s.exc, vmt |-> s.vmt, ward |-> w, groups |-> g,
              calls |-> s.calls] @@ none
        ELSE IF r.exc # None
        THEN [exc |-> r.exc, vmt |-> s.vmt, ward |-> r.ward, groups |-> r.groups,
              calls |-> s.calls \o r.calls] @@ none
        ELSE IF fault = "get_group_members"
        THEN [exc |-> "HTTPError", vmt |-> s.vmt, ward |-> r.ward,
              groups |-> r.groups,
              calls |-> s.calls \o r.calls
                        \o << <<"get_group_members", "raised">> >>] @@ none
        ELSE IF fault = "update_static_group_members"
        THEN [exc |-> "HTTPError", vmt |-> s.vmt, ward |-> r.ward,
              groups |-> r.groups,
              calls |-> s.calls \o r.calls
                        \o << <<"get_group_members", "ok">>,
                              <<"update_static_group_members", "raised">> >>,
              former |-> members, patients |-> <<>>]
        ELSE [exc |-> made.exc, vmt |-> s.vmt, ward |-> r.ward,
              groups |-> [r.groups EXCEPT ![name].members = {}],
              calls |-> s.calls \o r.calls
                        \o << <<"get_group_members", "ok">>,
                              <<"update_static_group_members", "ok">> >>,
              former |-> members, patients |-> made.patients]

\* Ward.discharge_eligible_patients of the instance w
ward_discharge_eligible_patients(w, v, g, fault) ==
    IF w.class = "VmtWard" THEN VmtWard_discharge_eligible_patients(w, v, g, fault)
    ELSE [exc |-> None, vmt |-> v, ward |-> w, groups |-> g, calls |-> <<>>,
          former |-> <<>>, patients |-> <<>>]

\* Patient.get_entity: tags and vendorIds of the first entity returned
get_entity(p, fault) ==
    IF fault = "get_entities"
    THEN [exc |-> "HTTPError", patient |-> p,
          calls |-> << <<"get_entities", "raised">> >>]
    ELSE [exc |-> None,
          patient |-> [p EXCEPT !.tags = <<"tag">>,
                                !.vendorIds = [vcenter |-> "vm-1"]],
          calls |-> << <<"get_entities", "ok">> >>]

----------------------------------------------------------------------------
(* The WardFactory called on its own, with any sequence of ward configs *)

\* most get_ward calls made on the factory
MaxCalls == 3

GroupNames == {"Quarantine", "Hold"}

\* quarantineMethods entries: vmt wards over the group names and entity types,
\* the unfinished vcenter type, and a type spelled like a vmt ward's key
WardConfigs ==
    {[type |-> "vmt", groupName |-> g, groupType |-> t] :
        g \in GroupNames, t \in EntityTypes}
    \cup {[type |-> "vcenter", tag |-> [category |-> "Quarantine"]],
          [type |-> "vmt-Quarantine"]}

\* a record of the log
Entry(call, rule, pos, ward, res) ==
    [call |-> call, rule |-> rule, pos |-> pos, ward |-> ward, res |-> res]

InitRegistry ==
    /\ Idle
    /\ config = <<>>
    /\ diagnosticians = <<>>
    /\ stdinDto = ActionScriptDto("MOVE", None, "FAILED")
    /\ patient = NoneObj
    /\ response = NoResponse
    /\ triaged = <<>>
    /\ diagnosed = <<>>
    /\ pc = "factory"

\* ward_factory.get_ward(wardConfig)
CallGetWard ==
    /\ pc = "factory"
    /\ Len(asked) < MaxCalls
    /\ \E wardConfig \in WardConfigs :
          LET r == get_ward(_ward_cache, wards, wardConfig)
          IN  /\ _ward_cache' = r.cache
              /\ wards' = r.heap
              /\ asked' = Append(asked, [config |-> wardConfig, ward |-> r.ward,
                                          constructed |-> r.constructed])
    /\ UNCHANGED <<discharge, config, stdinDto, vmt, diagnosticians, patient,
                   groups, response, requests, pc, i, k, triaged, diagnosed,
                   log, exception, swept>>

SpecRegistry == InitRegistry /\ [][CallGetWard]_vars

\* the keys asked for so far
KeysAsked == {_unique_ward_key(asked[n].config) : n \in 1..Len(asked)}

\* C6: after any sequence of get_ward calls, equal configs got the same
\* instance, vmt configs with different group names got different instances,
\* at most one instance was constructed per key, and all_wards holds exactly
\* one instance per key asked for
C6_OneWardPerKey ==
    pc = "factory" =>
        /\ \A a, b \in 1..Len(asked) :
              /\ asked[a].config = asked[b].config => asked[a].ward = asked[b].ward
              /\ (/\ asked[a].config.type = "vmt" /\ asked[b].config.type = "vmt"
                  /\ asked[a].config.groupName # asked[b].config.groupName)
                     => asked[a].ward # asked[b].ward
        /\ \A key \in KeysAsked :
              Cardinality({n \in 1..Len(asked) :
                              /\ _unique_ward_key(asked[n].config) = key
                              /\ asked[n].constructed}) = 1
        /\ Len(wards) = Cardinality(KeysAsked)
        /\ Len(all_wards(_ward_cache)) = Cardinality(KeysAsked)
        /\ \A a, b \in 1..Len(_ward_cache) :
              a # b => all_wards(_ward_cache)[a] # all_wards(_ward_cache)[b]
        /\ \A n \in 1..Len(asked) :
              \E a \in 1..Len(_ward_cache) :
                  /\ _ward_cache[a][1] = _unique_ward_key(asked[n].config)
                  /\ all_wards(_ward_cache)[a] = asked[n].ward

\* the same vmt config asked twice around one for another group
C6_Witness ==
    /\ pc = "factory" /\ Len(asked) = 3
    /\ asked[1].config.type = "vmt"
    /\ asked[1].config = asked[3].config
    /\ asked[2].config.type = "vmt"
    /\ asked[2].config.groupName # asked[1].config.groupName
    /\ asked[1].ward = asked[3].ward /\ asked[2].ward # asked[1].ward
    /\ Len(wards) = 2

----------------------------------------------------------------------------
(* The main block: one run of the script *)

\* most rules in config.yaml
MaxRules == 2

WardQuarantine == [type |-> "vmt", groupName |-> "Quarantine",
                   groupType |-> "VirtualMachine"]
WardHold == [type |-> "vmt", groupName |-> "Hold", groupType |-> "VirtualMachine"]
WardVcenter == [type |-> "vcenter", tag |-> [category |-> "Quarantine"]]

\* the rules a config.yaml is made of
RulePool ==
    {Rule("MOVE", None, 1, 0, <<WardQuarantine>>),
     Rule("MOVE", "VirtualMachine", 2, 0, <<WardQuarantine, WardHold>>),
     Rule("RESIZE", None, 1, 0, <<WardHold>>),
     Rule("MOVE", None, 2, 2, <<WardVcenter, WardHold>>)}

Configs == SeqsUpTo(RulePool, MaxRules) \ {<<>>}

\* what arrives on stdin: a MOVE of a virtual machine that failed or
\* succeeded, or a DTO without actionItem
Payloads ==
    {ActionScriptDto("MOVE", "VirtualMachine", "FAILED"),
     ActionScriptDto("MOVE", "VirtualMachine", "SUCCEEDED"),
     [actionState |-> "FAILED"]}

\* a static group on the platform before the run
GroupStates ==
    {[exists |-> FALSE, members |-> {}], [exists |-> TRUE, members |-> {}],
     [exists |-> TRUE, members |-> {"e2"}], [exists |-> TRUE, members |-> {"e2", "e3"}]}

FailedAt(t) == [actionType |-> "MOVE", uuid |-> "action-n",
                actionState |-> "FAILED", createTime |-> t]
SucceededAt(t) == [actionType |-> "MOVE", uuid |-> "action-n",
                   actionState |-> "SUCCEEDED", createTime |-> t]

\* what the platform answers to the action-history request of a run
MainResponses ==
    {[raises |-> TRUE, body |-> <<>>],
     [raises |-> FALSE, body |-> <<>>],
     [raises |-> FALSE, body |-> << <<FailedAt("2020-01-01T02:00:00+00:00"),
                                     FailedAt("2020-01-01T02:00:00+01:00")>> >>],
     [raises |-> FALSE, body |-> << <<FailedAt("2020-01-01T02:00:00+01:00"),
                                     SucceededAt("2020-01-01T02:00:00+00:00")>> >>],
     [raises |-> FALSE, body |-> << <<FailedAt("yesterday"),
                                     FailedAt("2020-01-01T02:00:00+00:00")>> >>]}

\* the log records of the platform calls of one operation
CallEntries(calls, rule, pos, ward) ==
    [n \in 1..Len(calls) |-> Entry(calls[n][1], rule, pos, ward, calls[n][2])]

Init ==
    /\ discharge \in BOOLEAN
    /\ config \in Configs
    /\ stdinDto \in IF discharge THEN {ActionScriptDto("MOVE", "VirtualMachine", "FAILED")}
                    ELSE Payloads
    /\ groups \in [GroupNames -> GroupStates]
    /\ vmt = None
    /\ _ward_cache = <<>>
    /\ wards = <<>>
    /\ diagnosticians = <<>>
    /\ patient = NoneObj
    /\ response = NoResponse
    /\ requests = 0
    /\ pc = "rules"
    /\ i = 1
    /\ k = 1
    /\ triaged = [n \in 1..Len(config) |-> "pending"]
    /\ diagnosed = [n \in 1..Len(config) |-> "pending"]
    /\ log = <<>>
    /\ exception = None
    /\ swept = <<>>
    /\ asked = <<>>

\* the get_ward calls of one Diagnostician.__init__, from the factory state f
RECURSIVE WardsOf(_, _)
WardsOf(f, methods) ==
    IF methods = <<>> THEN f
    ELSE LET r == get_ward(f.cache, f.heap, methods[1])
         IN  WardsOf([cache |-> r.cache, heap |-> r.heap,
                      refs  |-> Append(f.refs, r.ward),
                      asked |-> Append(f.asked,
                                       [config |-> methods[1], ward |-> r.ward,
                                        constructed |-> r.constructed])],
                     Tail(methods))

\* the loop that appends a Diagnostician per rule
RECURSIVE Diagnosticians(_, _)
Diagnosticians(f, rules) ==
    IF rules = <<>> THEN f
    ELSE LET w == WardsOf([cache |-> f.cache, heap |-> f.heap, refs |-> <<>>,
                           asked |-> f.asked],
                          rules[1].quarantineMethods)
         IN  Diagnosticians([cache |-> w.cache, heap |-> w.heap, asked |-> w.asked,
                             ds |-> Append(f.ds, Diagnostician(rules[1], w.refs))],
                            Tail(rules))

\* lines 581-591: build the diagnosticians, then sweep or read stdin
ReadRules ==
    /\ pc = "rules"
    /\ LET f == Diagnosticians([cache |-> _ward_cache, heap |-> wards,
                                asked |-> asked, ds |-> <<>>], config)
       IN  /\ _ward_cache' = f.cache
           /\ wards' = f.heap
           /\ asked' = f.asked
           /\ diagnosticians' = f.ds
           /\ pc' = IF ~discharge THEN "stdin"
                    ELSE IF Len(f.cache) = 0 THEN "done" ELSE "sweep"
    /\ UNCHANGED <<discharge, config, stdinDto, vmt, patient, groups, response,
                   requests, i, k, triaged, diagnosed, log, exception, swept>>

\* a sweep that goes on to the next ward after an exception
AfterSweep_goesOn(exc) ==
    IF i < Len(_ward_cache) THEN "sweep" ELSE "done"

\* where the sweep goes after a ward: on to the next, or out of the try block
AfterSweep(exc) ==
    IF exc # None THEN "done"
    ELSE IF i < Len(_ward_cache) THEN "sweep" ELSE "done"

\* lines 592-593: ward.discharge_eligible_patients() on the next cached ward
Sweep ==
    /\ pc = "sweep"
    /\ \E fault \in {"none", "Session", "search", "add_static_group",
                     "get_group_members", "update_static_group_members"} :
          LET ref == all_wards(_ward_cache)[i]
              r == ward_discharge_eligible_patients(wards[ref], vmt, groups, fault)
          IN  /\ vmt' = r.vmt
              /\ wards' = [wards EXCEPT ![ref] = r.ward]
              /\ groups' = r.groups
              /\ log' = log \o CallEntries(r.calls, 0, i, ref)
                            \o <<Entry("discharge_eligible_patients", 0, i, ref,
                                       IF r.exc = None THEN "ok" ELSE "raised")>>
              /\ swept' = Append(swept, [ward |-> ref, exc |-> r.exc,
                                         former |-> r.former,
                                         patients |-> r.patients])
              /\ exception' = r.exc
              /\ pc' = AfterSweep(r.exc)
              /\ i' = IF r.exc = None THEN i + 1 ELSE i
    /\ UNCHANGED <<discharge, config, stdinDto, _ward_cache, diagnosticians,
                   patient, response, requests, k, triaged, diagnosed, asked>>

\* lines 599-600: patient = Patient(stdinDto)
ReadStdin ==
    /\ pc = "stdin"
    /\ IF PatientRaises(stdinDto)
       THEN /\ exception' = "KeyError"
            /\ pc' = "done"
            /\ UNCHANGED patient
       ELSE /\ patient' = Patient(stdinDto)
            /\ pc' = IF Len(diagnosticians) = 0 THEN "done" ELSE "triage"
            /\ UNCHANGED exception
    /\ UNCHANGED <<discharge, config, stdinDto, vmt, _ward_cache, wards,
                   diagnosticians, groups, response, requests, i, k, triaged,
                   diagnosed, log, swept, asked>>

\* the for loop moves on to the next diagnostician
NextRule == IF i < Len(diagnosticians) THEN "triage" ELSE "done"

\* a loop that diagnoses whatever triage said
AfterTriage_always(matched) == "diagnose"

\* line 604: diagnose only what triage matched
AfterTriage(matched) == IF matched THEN "diagnose" ELSE NextRule

\* line 604: diagnostician.triage(patient)
MainTriage ==
    /\ pc = "triage"
    /\ LET matched == triage(diagnosticians[i], patient)
       IN  /\ triaged' = [triaged EXCEPT ![i] = IF matched THEN "match" ELSE "no match"]
           /\ log' = Append(log, Entry("triage", i, 0, 0,
                                       IF matched THEN "match" ELSE "no match"))
           /\ pc' = AfterTriage(matched)
           /\ i' = IF AfterTriage(matched) = "diagnose" THEN i ELSE i + 1
    /\ UNCHANGED <<discharge, config, stdinDto, vmt, _ward_cache, wards,
                   diagnosticians, patient, groups, response, requests, k,
                   diagnosed, exception, swept, asked>>

\* line 606: admit only on a positive diagnosis
AfterDiagnose(outcome) ==
    IF outcome = "raised" THEN "done"
    ELSE IF outcome = "positive" THEN "get_entity" ELSE NextRule

\* line 606: diagnostician.diagnose(vmtjit.get_session(), patient)
MainDiagnose ==
    /\ pc = "diagnose"
    /\ \E fault \in {"none", "Session"}, resp \in MainResponses :
          LET s == get_session(vmt, fault)
              r == diagnose(diagnosticians[i], patient, resp)
              outcome == IF s.exc # None THEN "raised" ELSE Outcome(r)
              fetched == s.exc = None /\ r.requests > 0
          IN  /\ vmt' = s.vmt
              /\ response' = IF fetched THEN resp ELSE response
              /\ requests' = IF fetched THEN requests + r.requests ELSE requests
              /\ diagnosed' = [diagnosed EXCEPT ![i] = outcome]
              /\ exception' = IF s.exc # None THEN s.exc ELSE r.exc
              /\ log' = log \o CallEntries(s.calls, i, 0, 0)
                            \o (IF fetched
                                THEN <<Entry("request", i, 0, 0,
                                             IF resp.raises THEN "raised" ELSE "ok")>>
                                ELSE <<>>)
                            \o (IF s.exc = None
                                THEN <<Entry("diagnose", i, 0, 0, outcome)>>
                                ELSE <<>>)
              /\ pc' = AfterDiagnose(outcome)
              /\ i' = IF outcome = "negative" THEN i + 1 ELSE i
    /\ UNCHANGED <<discharge, config, stdinDto, _ward_cache, wards,
                   diagnosticians, patient, groups, k, triaged, swept, asked>>

\* an admit loop that swallows a ward's exception and goes on
AfterAdmit_swallows(exc, pos) ==
    IF pos < Len(diagnosticians[i].wards) THEN "admit" ELSE NextRule

\* lines 500-501: an exception leaves the loop and the try block; otherwise
\* the next ward, or back to the rule loop after the last one
AfterAdmit(exc, pos) ==
    IF exc # None THEN "done"
    ELSE IF pos < Len(diagnosticians[i].wards) THEN "admit" ELSE NextRule

\* line 607: patient.get_entity(vmtjit.get_session())
MainGetEntity ==
    /\ pc = "get_entity"
    /\ \E fault \in {"none", "get_entities"} :
          LET r == get_entity(patient, fault)
          IN  /\ patient' = r.patient
              /\ exception' = r.exc
              /\ log' = log \o CallEntries(r.calls, i, 0, 0)
                            \o <<Entry("get_entity", i, 0, 0,
                                       IF r.exc = None THEN "ok" ELSE "raised")>>
              /\ pc' = AfterAdmit(r.exc, 0)
              /\ k' = 1
              /\ i' = IF r.exc = None /\ AfterAdmit(r.exc, 0) # "admit" THEN i + 1 ELSE i
    /\ UNCHANGED <<discharge, config, stdinDto, vmt, _ward_cache, wards,
                   diagnosticians, groups, response, requests, triaged,
                   diagnosed, swept, asked>>

\* lines 500-501, called from line 608: ward.admit(patient) on the next ward
MainAdmit ==
    /\ pc = "admit"
    /\ \E fault \in {"none", "search", "add_static_group",
                     "add_static_group_members"} :
          LET ref == diagnosticians[i].wards[k]
              r == ward_admit(wards[ref], vmt, groups, patient, fault)
          IN  /\ vmt' = r.vmt
              /\ wards' = [wards EXCEPT ![ref] = r.ward]
              /\ groups' = r.groups
              /\ exception' = r.exc
              /\ log' = log \o CallEntries(r.calls, i, k, ref)
                            \o <<Entry("admit", i, k, ref,
                                       IF r.exc = None THEN "ok" ELSE "raised")>>
              /\ pc' = AfterAdmit(r.exc, k)
              /\ k' = IF AfterAdmit(r.exc, k) = "admit" THEN k + 1 ELSE k
              /\ i' = IF r.exc = None /\ AfterAdmit(r.exc, k) # "admit" THEN i + 1 ELSE i
    /\ UNCHANGED <<discharge, config, stdinDto, _ward_cache, diagnosticians,
                   patient, response, requests, triaged, diagnosed, swept, asked>>

Next ==
    \/ ReadRules
    \/ Sweep
    \/ ReadStdin
    \/ MainTriage
    \/ MainDiagnose
    \/ MainGetEntity
    \/ MainAdmit

Spec == Init /\ [][Next]_vars

----------------------------------------------------------------------------
(* Claims about a run, checked under Spec *)

LogIdx == 1..Len(log)

\* an earlier record of the log says call returned res for that rule
Before(a, call, rule, res) ==
    \E b \in 1..(a - 1) :
        log[b].call = call /\ log[b].rule = rule /\ log[b].res = res

\* the ward admitted at position pos of rule r is the one its config names
WardMatches(ref, wardConfig) ==
    IF wardConfig.type = "vmt"
    THEN wards[ref].class = "VmtWard" /\ wards[ref].group_name = wardConfig.groupName
    ELSE wards[ref].class = "Ward"

\* rule r admitted the patient to the ward at position pos
Admitted(r, pos) ==
    \E a \in LogIdx :
        /\ log[a].call = "admit" /\ log[a].rule = r /\ log[a].pos = pos
        /\ log[a].res = "ok"
        /\ WardMatches(log[a].ward, config[r].quarantineMethods[pos])

\* C5: in an admit run the rules are processed in configured order; diagnose
\* and the history request happen only after that rule's triage matched,
\* get_entity only after its positive diagnosis, admit only after its
\* get_entity; a rule that did not match or diagnosed negative admits to no
\* ward; and a rule that diagnosed positive and was left without an exception
\* admitted to every one of its wards
C5_AdmitRunOrder ==
    ~discharge =>
        /\ \A a, b \in LogIdx : a < b => log[a].rule <= log[b].rule
        /\ \A a \in LogIdx :
              /\ log[a].call \in {"diagnose", "request"}
                    => Before(a, "triage", log[a].rule, "match")
              /\ log[a].call = "get_entity"
                    => Before(a, "diagnose", log[a].rule, "positive")
              /\ log[a].call \in {"admit", "search", "add_static_group",
                                  "add_static_group_members"}
                    => /\ Before(a, "get_entity", log[a].rule, "ok")
                       /\ Before(a, "diagnose", log[a].rule, "positive")
        /\ \A r \in 1..Len(config) :
              /\ (triaged[r] = "no match" \/ diagnosed[r] = "negative")
                    => ~\E a \in LogIdx :
                           /\ log[a].rule = r
                           /\ log[a].call \in {"get_entity", "admit", "search",
                                               "add_static_group",
                                               "add_static_group_members"}
              /\ triaged[r] = "no match" => diagnosed[r] = "pending"
              /\ (diagnosed[r] = "positive" /\ r < i)
                    => \A pos \in 1..Len(config[r].quarantineMethods) :
                           Admitted(r, pos)

\* a run of two rules that ended without exception: the first did not match,
\* the second fetched history, diagnosed positive and admitted to both wards
C5_Witness ==
    /\ ~discharge /\ pc = "done" /\ exception = None
    /\ Len(config) = 2
    /\ triaged[1] = "no match"
    /\ diagnosed[2] = "positive" /\ requests = 1
    /\ Len(config[2].quarantineMethods) = 2
    /\ Admitted(2, 1) /\ Admitted(2, 2)

\* C8: an exception raised while a rule is processed, after the patient was
\* built (an unparsable createTime in its diagnose, a ward that raises in its
\* admit), is confined to that rule: every later rule is still triaged and,
\* if it matches, diagnosed
C8_LaterRulesStillProcessed ==
    (/\ ~discharge /\ pc = "done" /\ patient # NoneObj
     /\ \/ exception = "ParseError"
        \/ Len(log) > 0 /\ log[Len(log)].call = "admit"
                        /\ log[Len(log)].res = "raised")
        => \A r \in (i + 1)..Len(config) :
               /\ triaged[r] # "pending"
               /\ triaged[r] = "match" => diagnosed[r] # "pending"

\* the members of the group a VmtWard admits to
MembersOf(ref) == groups[wards[ref].group_name].members

\* C9: Diagnostician.admit admits to its wards in configured order; when the
\* ward at position k raises, the exception leaves admit (nothing more is
\* called), the wards before k were admitted to and still hold the patient,
\* and no ward after k is called
C9_AdmitStopsAtTheFailingWard ==
    \A a \in LogIdx :
        log[a].call = "admit" =>
            /\ log[a].ward = diagnosticians[log[a].rule].wards[log[a].pos]
            /\ \A j \in 1..(log[a].pos - 1) :
                  \E b \in 1..(a - 1) :
                      /\ log[b] = Entry("admit", log[a].rule, j,
                                        diagnosticians[log[a].rule].wards[j], "ok")
                      /\ \A c \in (b + 1)..(a - 1) :
                            log[c].call = "admit" => log[c].pos > j
            /\ (log[a].res = "ok" /\ wards[log[a].ward].class = "VmtWard")
                  => patient.uuid \in MembersOf(log[a].ward)
            /\ log[a].res = "raised"
                  => /\ a = Len(log)
                     /\ pc = "done"
                     /\ exception # None
                     /\ i = log[a].rule

\* the second of two vmt wards raised when the patient was added to its group:
\* the run is over, the first ward's group holds the patient, the second's not
C9_Witness ==
    /\ Len(log) > 0
    /\ log[Len(log)].call = "admit" /\ log[Len(log)].res = "raised"
    /\ log[Len(log)].pos = 2
    /\ log[Len(log) - 1] = Entry("add_static_group_members", i, 2,
                                 log[Len(log)].ward, "raised")
    /\ wards[diagnosticians[i].wards[1]].class = "VmtWard"
    /\ patient.uuid \in MembersOf(diagnosticians[i].wards[1])
    /\ patient.uuid \notin MembersOf(diagnosticians[i].wards[2])
    /\ pc = "done" /\ exception = "HTTPError"

\* C10: when the platform calls of discharge_eligible_patients succeed on a
\* vmt ward, whatever members its group has, the group is left empty and the
\* call returns, without raising, one Patient per former member, carrying
\* that member's uuid
C10_SweepReturnsFormerMembers ==
    \A n \in 1..Len(swept) :
        (/\ wards[swept[n].ward].class = "VmtWard"
         /\ swept[n].exc \notin {"ConnectionError", "HTTPError"})
            => /\ swept[n].exc = None
               /\ MembersOf(swept[n].ward) = {}
               /\ Len(swept[n].patients) = Len(swept[n].former)
               /\ \A m \in 1..Len(swept[n].former) :
                     swept[n].patients[m].uuid = swept[n].former[m].uuid

\* the records of the log that say discharge_eligible_patients was called on
\* the ward ref
SweepsOf(ref) ==
    {a \in LogIdx : log[a].call = "discharge_eligible_patients" /\ log[a].ward = ref}

\* C11: at the end of a discharge run, discharge_eligible_patients was called
\* exactly once on every ward of the factory, also when the sweep of an
\* earlier ward raised, and the run triaged, diagnosed, fetched and admitted
\* nothing
C11_SweepCoversEveryWard ==
    (discharge /\ pc = "done")
        => /\ \A n \in 1..Len(_ward_cache) :
                 Cardinality(SweepsOf(all_wards(_ward_cache)[n])) = 1
           /\ \A a \in LogIdx :
                 log[a].call \notin {"triage", "diagnose", "request", "get_entity",
                                     "get_entities", "admit",
                                     "add_static_group_members"}
           /\ requests = 0
           /\ patient = NoneObj


----------------------------------------------------------------------------
(* One Diagnostician called on a history spread over three instants *)

\* three createTime strings of three different instants
Timeline == IsoDates \cup {"2020-01-01T03:00:00+00:00"}

\* action DTOs that failed or succeeded at an instant of the timeline
TimelineDtos ==
    {[actionType |-> "MOVE", uuid |-> "action-n", actionState |-> st,
      createTime |-> t] : st \in {"FAILED", "SUCCEEDED"}, t \in Timeline}

\* a rule over MOVE with no wards, a patient in any actionState, and a
\* history over the timeline in any order
InitTimeline ==
    /\ Idle
    /\ \E fc \in 1..MaxFailureCount, ac \in 0..MaxAttemptCount :
          config = <<Rule("MOVE", None, fc, ac, <<>>)>>
    /\ diagnosticians = <<Diagnostician(config[1], <<>>)>>
    /\ \E st \in ActionStates : stdinDto = ActionScriptDto("MOVE", None, st)
    /\ patient = Patient(stdinDto)
    /\ \E h \in SeqsUpTo(TimelineDtos, MaxHistory) :
          response = [raises |-> FALSE, body |-> <<h>>]
    /\ triaged = <<"pending">>
    /\ diagnosed = <<"pending">>
    /\ pc = "call"

SpecTimeline == InitTimeline /\ [][CallDiagnose]_vars

\* no two events of the history were created at the same instant
DistinctInstants ==
    \A m, n \in 1..Len(History) : m # n => Instants[m].value # Instants[n].value

\* the place of event n in the time order diagnose sorts the history into,
\* counted from the oldest
Rank(n) == Cardinality({m \in 1..Len(History) : MoreRecent(n, m)})

\* the history holds c failed events in a row: c events next to one another in
\* time order, with no event of another outcome between them
FailedInARow(c) ==
    \E s \in 0..(Len(History) - c) :
        \A n \in 1..Len(History) :
            Rank(n) \in s..(s + c - 1) => n \in FailedEvents

\* C12: with no attemptCount, diagnose is positive only if the history holds
\* failureCount failed actions in a row; failures separated by a succeeded
\* action do not add up to a positive diagnosis (stated for histories whose
\* events were created at different instants, where "in a row" has one meaning)
C12_PositiveOnlyOnConsecutiveFailures ==
    (HistoryPath /\ TheRule.attemptCount = 0 /\ AllParse /\ DistinctInstants
       /\ diagnosed[1] = "positive")
        => FailedInARow(TheRule.failureCount)

----------------------------------------------------------------------------
(* One VmtWard called on its own, with any sequence of its operations *)

\* most operations called on the ward
MaxOps == 3

\* a static group on the platform before the calls: as before a run, or
\* already holding the patient
WardGroupStates == GroupStates \cup {[exists |-> TRUE, members |-> {"e1", "e2"}]}

\* a fresh VmtWard over one of the group names, no session yet
InitWard ==
    /\ discharge = FALSE
    /\ vmt = None
    /\ _ward_cache = <<>>
    /\ requests = 0
    /\ i = 1
    /\ k = 1
    /\ log = <<>>
    /\ exception = None
    /\ swept = <<>>
    /\ asked = <<>>
    /\ \E wardConfig \in {WardQuarantine, WardHold} :
          wards = <<VmtWard(wardConfig)>>
    /\ groups \in [GroupNames -> WardGroupStates]
    /\ config = <<>>
    /\ diagnosticians = <<>>
    /\ stdinDto = ActionScriptDto("MOVE", "VirtualMachine", "FAILED")
    /\ patient = Patient(stdinDto)
    /\ response = NoResponse
    /\ triaged = <<>>
    /\ diagnosed = <<>>
    /\ pc = "ward"

\* what every operation on the ward leaves behind: the session, the ward,
\* the platform's groups, the calls it made, and the exception that ends the
\* calls as it would end the run
AfterWardCall(op, r) ==
    /\ vmt' = r.vmt
    /\ wards' = [wards EXCEPT ![1] = r.ward]
    /\ groups' = r.groups
    /\ log' = log \o CallEntries(r.calls, 0, i, 1)
                  \o <<Entry(op, 0, i, 1, IF r.exc = None THEN "ok" ELSE "raised")>>
    /\ exception' = r.exc
    /\ pc' = IF r.exc = None THEN "ward" ELSE "done"
    /\ i' = i + 1
    /\ UNCHANGED <<discharge, config, stdinDto, _ward_cache, diagnosticians,
                   patient, response, requests, k, triaged, diagnosed, swept,
                   asked>>

\* ward.admit(patient)
WardAdmit ==
    /\ pc = "ward" /\ i <= MaxOps
    /\ \E fault \in {"none", "Session", "search", "add_static_group",
                     "add_static_group_members"} :
          AfterWardCall("admit", VmtWard_admit(wards[1], vmt, groups, patient, fault))

\* ward.discharge(patient)
WardDischarge ==
    /\ pc = "ward" /\ i <= MaxOps
    /\ \E fault \in {"none", "Session", "search", "add_static_group",
                     "get_group_members", "update_static_group_members"} :
          AfterWardCall("discharge",
                        VmtWard_discharge(wards[1], vmt, groups, patient, fault))

\* ward.discharge_eligible_patients()
WardSweep ==
    /\ pc = "ward" /\ i <= MaxOps
    /\ \E fault \in {"none", "Session", "search", "add_static_group",
                     "get_group_members", "update_static_group_members"} :
          LET r == VmtWard_discharge_eligible_patients(wards[1], vmt, groups, fault)
          IN  AfterWardCall("discharge_eligible_patients",
                            [exc |-> r.exc, vmt |-> r.vmt, ward |-> r.ward,
                             groups |-> r.groups, calls |-> r.calls])

NextWard == WardAdmit \/ WardDischarge \/ WardSweep

SpecWard == InitWard /\ [][NextWard]_vars

\* the records of the log of a call
CallsOf(call) == {a \in LogIdx : log[a].call = call}

\* the calls that read or write the members of a group
MemberCalls ==
    {"add_static_group_members", "get_group_members", "update_static_group_members"}

\* the search or the creation that gave the ward its handle
Resolutions ==
    {a \in LogIdx : \/ log[a].call = "search" /\ log[a].res = "found"
                    \/ log[a].call = "add_static_group" /\ log[a].res = "ok"}

\* C13: across any sequence of admit, discharge and discharge_eligible_patients
\* calls on one VmtWard, the group is searched for at most once and created at
\* most once, it is created only right after a search that found none, no
\* member of a group is read or written before the handle was resolved, and
\* from then on the ward holds the handle of the group of its name, on which
\* the last operation acted
C13_GroupResolvedOnce ==
    pc \in {"ward", "done"} =>
        /\ Cardinality(CallsOf("search")) <= 1
        /\ Cardinality(CallsOf("add_static_group")) <= 1
        /\ \A a \in CallsOf("add_static_group") :
              /\ a > 1
              /\ log[a - 1].call = "search" /\ log[a - 1].res = "none"
              /\ log[a - 1].pos = log[a].pos
        /\ \A a \in LogIdx :
              log[a].call \in MemberCalls => \E b \in Resolutions : b < a
        /\ Cardinality(Resolutions) <= 1
        /\ (Resolutions = {}) <=> (wards[1].group = NoneObj)
        /\ Resolutions # {} =>
              /\ wards[1].group = GroupDto(wards[1].group_name)
              /\ groups[wards[1].group_name].exists
        /\ (log # <<>> /\ log[Len(log)].res = "ok") =>
              /\ log[Len(log)].call = "admit"
                    => patient.uuid \in groups[wards[1].group.displayName].members
              /\ log[Len(log)].call = "discharge"
                    => patient.uuid \notin groups[wards[1].group.displayName].members
              /\ log[Len(log)].call = "discharge_eligible_patients"
                    => groups[wards[1].group.displayName].members = {}

\* an admit that found no group and created it, then a discharge and another
\* admit that searched for nothing and created nothing
C13_Witness ==
    /\ pc = "ward"
    /\ Cardinality(CallsOf("admit")) = 2
    /\ Cardinality(CallsOf("discharge")) = 1
    /\ \A a \in CallsOf("admit") \cup CallsOf("discharge") : log[a].res = "ok"
    /\ log[Len(log)].call = "admit"
    /\ Cardinality(CallsOf("search")) = 1
    /\ Cardinality(CallsOf("add_static_group")) = 1
    /\ \A a \in CallsOf("add_static_group") : log[a].res = "ok" /\ log[a].pos = 1
    /\ wards[1].group = GroupDto(wards[1].group_name)
    /\ patient.uuid \in groups[wards[1].group_name].members

----------------------------------------------------------------------------
(* Claims about the order of the history, checked under SpecDiagnose *)

\* the ways to reorder a list of n elements
Reorderings(n) ==
    {f \in [1..n -> 1..n] : \A a, b \in 1..n : a # b => f[a] # f[b]}

\* the history in the order f
Permuted(f) == [n \in 1..Len(History) |-> History[f[n]]]

\* what diagnose returns when the platform answers with the history h
DiagnosisOf(h) ==
    Outcome(diagnose(diagnosticians[1], patient, [raises |-> FALSE, body |-> <<h>>]))

\* the call fetched a history
Fetched == HistoryPath /\ Len(response.body) > 0

\* two events created at the same instant, one failed and one not
MixedTie ==
    \E m, n \in 1..Len(History) :
        /\ Instants[m].exc = None /\ Instants[n].exc = None
        /\ Instants[m].value = Instants[n].value
        /\ m \in FailedEvents /\ n \notin FailedEvents

\* C14 as stated: diagnose returns the same result for every permutation of
\* the history, with or without attemptCount, events sharing a createTime
\* included
C14_AnyOrderSameDiagnosis ==
    Fetched => \A f \in Reorderings(Len(History)) :
                   DiagnosisOf(Permuted(f)) = diagnosed[1]

\* C14 amended: diagnose returns the same result for every permutation of
\* the history when the rule has no attemptCount, or when no two events that
\* share a createTime differ in whether they failed
C14_OrderMattersOnlyInMixedTies ==
    (Fetched /\ (TheRule.attemptCount = 0 \/ ~MixedTie))
        => \A f \in Reorderings(Len(History)) :
               DiagnosisOf(Permuted(f)) = diagnosed[1]

\* a window of 2 over a history returned newest first: two failures of the
\* same instant ahead of an older success, diagnosed positive
C14_Witness ==
    /\ Fetched /\ AllParse /\ ~MixedTie
    /\ TheRule.attemptCount = 2 /\ TheRule.failureCount = 2
    /\ Len(History) = 3
    /\ FailedEvents = {1, 2}
    /\ Instants[1].value = Instants[2].value
    /\ Instants[3].value < Instants[1].value
    /\ diagnosed[1] = "positive"

====
